---- MODULE Spec2Model ----
(***************************************************************************)
(* Model of the request lifecycle of package profiler                      *)
(* (github.com/fako1024/profiler): the /profile and /trace handlers, the   *)
(* bounded wait sleep() they share, the process-wide single-slot CPU and   *)
(* trace samplers, the /symbol handler, the index and named-profile        *)
(* handlers, and the http.ResponseWriter each handler writes to.           *)
(* The parser, symbolizer and report renderer of internal/ are modelled by *)
(* their contracts, with their outcomes as inputs.                         *)
(*                                                                         *)
(* Time is counted in ticks of 100ms.  Handler code takes no time; time    *)
(* passes only while a handler is blocked in sleep(), and a select with a  *)
(* ready case is taken before the clock moves on.                          *)
(***************************************************************************)
EXTENDS Integers, Sequences, FiniteSets, TLC

\* ---------------------------------------------------------------- bounds
\* Number of concurrent request goroutines.
NumReq == 2
\* Single clock ticks are taken only while every wait is younger than MaxTime
\* (time may always pass up to the expiry of the earliest timer).
MaxTime == 1
\* Samples (trace chunks) one capture delivers to its sink at most.
MaxSamples == 1
\* Tokens in the program counter list of one /symbol request at most.
MaxWords == 3

\* ------------------------------------------------------------- constants
\* sec = 30 (Profile), sec = 1 (Trace)
DefaultProfileSeconds == 30
DefaultTraceSeconds == 1
\* http.StatusInternalServerError, and the status of an implicit WriteHeader
StatusInternalServerError == 500
StatusOK == 200
\* w.WriteHeader(404)
StatusNotFound == 404
\* time.Second, in clock ticks
Second == 10
\* float64 values are held in fixed point: the float f is the integer f * FloatScale
FloatScale == 10

Req == 1..NumReq
None == 0
Never == -1

\* ------------------------------------------------------- request inputs
\* Raw values of the "seconds" form parameter, as character sequences
\* (<<>> is a missing parameter: r.FormValue returns "").
SecondsInputs ==
    { <<>>, <<"0">>, <<"1">>, <<"3", "0">>, <<"-", "1">>, <<"x">>, <<".", "5">> }

\* The "seconds" values of requests that race each other.
RaceInputs == { <<>> }

\* Raw values of the "binary" and "cum" form parameters.
BoolInputs == { "", "true", "0", "yes" }

\* Tokens of a program counter list: empty, zero, a counter inside a
\* function, a counter outside every function, not a number, a hexadecimal
\* counter inside a function.
Words == { <<>>, <<"0">>, <<"1">>, <<"2">>, <<"x">>, <<"0", "x", "a">> }

RECURSIVE Join(_)
Join(ws) == IF Len(ws) = 1 THEN ws[1] ELSE ws[1] \o <<"+">> \o Join(Tail(ws))

\* r.URL.RawQuery of a GET, the bytes of r.Body of a POST: '+'-delimited tokens
SymbolInputs == { Join(ws) : ws \in UNION { [1..n -> Words] : n \in 1..MaxWords } }

\* The token list of a /symbol request served next to a running capture.
ParallelInputs == { <<"1", "+", "x">> }

\* r.Method
Methods == { "GET", "POST" }

\* The error that ends the reading of r.Body: end of stream, or a failed read.
EOF == "EOF"
ErrUnexpectedEOF == "unexpected EOF"
BodyErrors == { EOF, ErrUnexpectedEOF }

\* r.URL.Path of a request routed to Index, as "/" and the pieces between.
Paths ==
    { <<"/">>, <<"/", "heap">>, <<"/", "goroutine">>, <<"/", "nosuch">>,
      <<"/", "heap", "/">> }

\* Raw values of the "gc" and "debug" form parameters.
GcInputs == { <<>>, <<"0">>, <<"1">>, <<"2">>, <<"-", "1">>, <<"x">> }
DebugInputs == { <<>>, <<"1">> }

\* ------------------------------------------------------------- strconv
DigitChars == <<"0", "1", "2", "3", "4", "5", "6", "7", "8", "9">>
IsDigit(c) == \E i \in 1..Len(DigitChars) : DigitChars[i] = c
DigitVal(c) == (CHOOSE i \in 1..Len(DigitChars) : DigitChars[i] = c) - 1
AllDigits(s) == \A i \in 1..Len(s) : IsDigit(s[i])

RECURSIVE Atoi(_)
Atoi(s) ==
    IF s = <<>> THEN 0
    ELSE 10 * Atoi(SubSeq(s, 1, Len(s) - 1)) + DigitVal(s[Len(s)])

RECURSIVE Pow10(_)
Pow10(n) == IF n = 0 THEN 1 ELSE 10 * Pow10(n - 1)

Unsigned(s) == IF s # <<>> /\ s[1] \in {"+", "-"} THEN Tail(s) ELSE s
Negative(s) == s # <<>> /\ s[1] = "-"

\* strconv.ParseInt(s, 10, 64): optional sign, then one or more decimal
\* digits; anything else is a syntax error with value 0.  (No input of
\* SecondsInputs is long enough for a range error.)
ParseInt(s) ==
    LET body == Unsigned(s)
    IN  IF body # <<>> /\ AllDigits(body)
        THEN [val |-> IF Negative(s) THEN 0 - Atoi(body) ELSE Atoi(body), err |-> FALSE]
        ELSE [val |-> 0, err |-> TRUE]

\* strconv.ParseFloat(s, 64) on the characters of SecondsInputs: optional
\* sign, digits with at most one ".", at least one digit; anything else is a
\* syntax error with value 0.  The value is in fixed point (FloatScale).
ParseFloat(s) ==
    LET body == Unsigned(s)
        dots == { i \in 1..Len(body) : body[i] = "." }
        dot  == IF dots = {} THEN Len(body) + 1 ELSE CHOOSE i \in dots : TRUE
        int  == SubSeq(body, 1, dot - 1)
        frac == SubSeq(body, dot + 1, Len(body))
        ok   == /\ Cardinality(dots) <= 1
                /\ AllDigits(int) /\ AllDigits(frac)
                /\ Len(int) + Len(frac) > 0
        mag  == Atoi(int) * FloatScale + (Atoi(frac) * FloatScale) \div Pow10(Len(frac))
    IN  IF ok
        THEN [val |-> IF Negative(s) THEN 0 - mag ELSE mag, err |-> FALSE]
        ELSE [val |-> 0, err |-> TRUE]

HexChars ==
    <<"0", "1", "2", "3", "4", "5", "6", "7", "8", "9", "a", "b", "c", "d", "e", "f">>
IsHexDigit(c) == \E i \in 1..Len(HexChars) : HexChars[i] = c
HexVal(c) == (CHOOSE i \in 1..Len(HexChars) : HexChars[i] = c) - 1

RECURSIVE ToNumber(_, _)
ToNumber(s, base) ==
    IF s = <<>> THEN 0
    ELSE base * ToNumber(SubSeq(s, 1, Len(s) - 1), base) + HexVal(s[Len(s)])

\* strconv.ParseUint(s, 0, 64): the base is taken from the prefix ("0x" 16,
\* "0b" 2, "0o" or a leading "0" 8, else 10); no sign; every character must
\* be a digit of the base; anything else is a syntax error with value 0.
\* (No token of Words is long enough for a range error, and none has the
\* underscores base 0 allows.)
ParseUint(s) ==
    LET prefixed == Len(s) >= 3 /\ s[1] = "0" /\ s[2] \in {"x", "X", "b", "B", "o", "O"}
        leading0 == ~prefixed /\ s # <<>> /\ s[1] = "0"
        base == IF prefixed
                THEN (IF s[2] \in {"x", "X"} THEN 16 ELSE IF s[2] \in {"b", "B"} THEN 2 ELSE 8)
                ELSE IF leading0 THEN 8 ELSE 10
        digits == IF prefixed THEN SubSeq(s, 3, Len(s))
                  ELSE IF leading0 THEN Tail(s) ELSE s
        ok == /\ s # <<>>
              /\ \A i \in 1..Len(digits) : IsHexDigit(digits[i]) /\ HexVal(digits[i]) < base
    IN  IF ok THEN [val |-> ToNumber(digits, base), err |-> FALSE]
        ELSE [val |-> 0, err |-> TRUE]

RECURSIVE HexDigitsOf(_)
HexDigitsOf(n) ==
    IF n < 16 THEN <<HexChars[n + 1]>>
    ELSE Append(HexDigitsOf(n \div 16), HexChars[(n % 16) + 1])

\* fmt's %#x verb
FormatHex(n) == <<"0", "x">> \o HexDigitsOf(n)

\* strings.TrimPrefix(s, prefix), for a prefix of one piece
TrimPrefix(s, prefix) == IF s # <<>> /\ s[1] = prefix THEN Tail(s) ELSE s

\* strconv.ParseBool(str)
ParseBool(str) ==
    IF str \in {"1", "t", "T", "TRUE", "true", "True"} THEN [val |-> TRUE, err |-> FALSE]
    ELSE IF str \in {"0", "f", "F", "FALSE", "false", "False"} THEN [val |-> FALSE, err |-> FALSE]
    ELSE [val |-> FALSE, err |-> TRUE]

\* ------------------------------------------------- duration of the wait
\* Profile without the default for a zero sec
ProfileSec_NoDefault(s) == ParseInt(s).val

\* Profile, lines 85-88 and 104: sec, _ := ParseInt(...); if sec == 0 { sec = 30 };
\* time.Duration(sec)*time.Second
ProfileSec(s) ==
    LET sec == ParseInt(s).val
    IN  IF sec = 0 THEN DefaultProfileSeconds ELSE sec

ProfileDuration(s) == ProfileSec(s) * Second

\* Trace, lines 150-153 and 166: sec, err := ParseFloat(...);
\* if sec <= 0 || err != nil { sec = 1 }; time.Duration(sec*float64(time.Second))
TraceSec(s) ==
    LET p == ParseFloat(s)
    IN  IF p.val <= 0 \/ p.err THEN DefaultTraceSeconds * FloatScale ELSE p.val

TraceDuration(s) == (TraceSec(s) * Second) \div FloatScale

\* time.After(d): the timer fires d after its creation, at once when d <= 0.
TimerDelay(d) == IF d > 0 THEN d ELSE 0

\* ------------------------------------------------- http.ResponseWriter
TextPlain == "text/plain; charset=utf-8"
OctetStream == "application/octet-stream"

NewResponse ==
    [ct |-> "", wroteHeader |-> FALSE, status |-> 0, sentCT |-> "", body |-> <<>>]

\* w.Header().Set("Content-Type", ct)
SetContentType(w, ct) == [w EXCEPT !.ct = ct]

\* w.WriteHeader(code): the first call fixes status and headers, later calls
\* are superfluous and ignored.
WriteHeader(w, code) ==
    IF w.wroteHeader THEN w
    ELSE [w EXCEPT !.wroteHeader = TRUE, !.status = code, !.sentCT = w.ct]

\* w.Write(data) / fmt.Fprintf(w, ...): an implicit WriteHeader(200) first.
Write(w, chunk) ==
    LET h == WriteHeader(w, StatusOK)
    IN  [h EXCEPT !.body = Append(@, chunk)]

\* What a handler writes: a text line, or data (raw capture bytes, trace
\* bytes, a rendered report).
Text(msg) == [type |-> "text", text |-> msg, data |-> <<>>, sym |-> FALSE, cum |-> FALSE]
Bytes(type, data) == [type |-> type, text |-> "", data |-> data, sym |-> FALSE, cum |-> FALSE]
\* fmt.Fprintf of a format with one argument
Textf(msg, arg) == [type |-> "text", text |-> msg, data |-> <<arg>>, sym |-> FALSE, cum |-> FALSE]

\* ------------------------------------------- external collaborators
\* runtime/pprof's CPU profiler: one process-wide slot.  owner is the request
\* whose start succeeded, w the sink the samples are routed into.
IdleSampler == [active |-> FALSE, owner |-> None, w |-> None]

\* StartCPUProfile without the single-slot check: a second start takes the
\* sampler over.
StartCPUProfile_NoBusyCheck(c, r) ==
    [err |-> FALSE, sampler |-> [active |-> TRUE, owner |-> r, w |-> r]]

\* pprof.StartCPUProfile(&buf): fails when a capture is already active.
StartCPUProfile(c, r) ==
    IF c.active
    THEN [err |-> TRUE, sampler |-> c]
    ELSE [err |-> FALSE, sampler |-> [active |-> TRUE, owner |-> r, w |-> r]]

\* pprof.StopCPUProfile(): no-op when no capture is active.
StopCPUProfile(c) == IF c.active THEN IdleSampler ELSE c

RECURSIVE Samples(_, _)
Samples(owner, n) == IF n = 0 THEN <<>> ELSE Append(Samples(owner, n - 1), owner)

\* pprof.StopCPUProfile() waits for the profiler's writer, which writes the
\* samples taken during the capture to the capture's sink before it ends.
Flush(c, bufs, n) ==
    IF c.active
    THEN [bufs EXCEPT ![c.w] = [@ EXCEPT !.data = @ \o Samples(c.owner, n)]]
    ELSE bufs

\* trace.Start(w): fails when tracing is already enabled.
traceStart(t, r) ==
    IF t.active
    THEN [err |-> TRUE, sampler |-> t]
    ELSE [err |-> FALSE, sampler |-> [active |-> TRUE, owner |-> r, w |-> r]]

\* trace.Stop(): no-op when tracing is not enabled.
traceStop(t) == IF t.active THEN IdleSampler ELSE t

\* bytes.Buffer holding a raw capture
RawCapture(samples) == Bytes("raw", samples)

NoProfile == [parsed |-> FALSE, samples |-> <<>>, resolved |-> FALSE]

\* profile.Parse(&buf): decodes the raw capture or fails.
Parse(raw, ok) ==
    IF ok
    THEN [err |-> FALSE, prof |-> [parsed |-> TRUE, samples |-> raw.data, resolved |-> FALSE]]
    ELSE [err |-> TRUE, prof |-> NoProfile]

\* symbolz.Symbolize(url, fetch.PostURL, prof): resolves the program counters
\* of prof in place; on failure the counters stay unresolved.
Symbolize(p, ok) ==
    IF ok
    THEN [err |-> FALSE, prof |-> [p EXCEPT !.resolved = TRUE]]
    ELSE [err |-> TRUE, prof |-> p]

\* report.NewDefault(prof, Options{Text, CumSort: cum, PrintAddresses: true})
\* and report.Generate(&buf, rpt, nil)
Generate(p, cumSort) ==
    [type |-> "report", text |-> "", data |-> p.samples, sym |-> p.resolved, cum |-> cumSort]

\* The runtime's function table: the code range of each function.
Funcs ==
    { [name |-> "main.main", entry |-> 1, end |-> 1],
      [name |-> "main.f", entry |-> 8, end |-> 10] }

\* (*runtime.Func)(nil)
NilFunc == ""

\* runtime.FuncForPC(pc).Name(): the function whose code contains pc, or nil
FuncForPC(pc) ==
    LET fs == { f \in Funcs : f.entry <= pc /\ pc <= f.end }
    IN  IF fs = {} THEN NilFunc ELSE (CHOOSE f \in fs : TRUE).name

\* pprof.Profiles(): the names of the registered profiles
Profiles == { <<"goroutine">>, <<"heap">> }

\* pprof.Lookup(name) != nil
Lookup(name) == name \in Profiles

\* What the handlers read of the request.
NoRequest ==
    [Method |-> "", Path |-> <<>>, RawQuery |-> <<>>, Body |-> <<>>, BodyErr |-> "",
     gc |-> <<>>, debug |-> <<>>]

\* bufio.NewReader(rd): the bytes rd delivers and the error it ends with
NoReader == [data |-> <<>>, err |-> ""]
NewReader(data, err) == [data |-> data, err |-> err]

\* b.ReadSlice('+'): the bytes up to and including the first delimiter, or
\* all that is left together with the error that ended the input.
ReadSlice(rd) ==
    LET delims == { i \in 1..Len(rd.data) : rd.data[i] = "+" }
    IN  IF delims = {}
        THEN [line |-> rd.data, err |-> rd.err, rest |-> [rd EXCEPT !.data = <<>>]]
        ELSE LET i == CHOOSE j \in delims : \A k \in delims : j <= k
             IN  [line |-> SubSeq(rd.data, 1, i), err |-> "",
                  rest |-> [rd EXCEPT !.data = SubSeq(rd.data, i + 1, Len(rd.data))]]

\* fmt.Fprintf(&buf, "%#x %s\n", pc, f.Name())
SymbolLine(pc, name) ==
    [type |-> "symbol", text |-> name, data |-> FormatHex(pc), sym |-> TRUE, cum |-> FALSE]

\* ------------------------------------------------------------- state
VARIABLES
    pc,          \* position of each request's handler
    kind,        \* "profile" or "trace": the handler the request is routed to
    seconds,     \* raw "seconds" form value
    binary,      \* parsed "binary" form value
    hasCN,       \* the ResponseWriter implements http.CloseNotifier
    goneAt,      \* time into the wait at which the client disconnected, or Never
    d,           \* duration handed to sleep
    elapsed,     \* time spent in sleep so far
    endedBy,     \* select case that ended sleep: "timer" or "gone"
    buf,         \* the handler's bytes.Buffer
    prof,        \* the handler's parsed profile
    resp,        \* the handler's http.ResponseWriter
    steps,       \* calls the handler has made so far
    cpu,         \* process-wide CPU profiler
    tracing,     \* process-wide execution tracer
    request,     \* what Symbol, Index and ServeHTTP read of the *http.Request
    reader       \* Symbol's bufio.Reader b: the input not read yet and how it ends

wait == <<seconds, hasCN, goneAt, d, elapsed>>
samplers == <<cpu, tracing>>
vars == <<pc, kind, seconds, binary, hasCN, goneAt, d, elapsed, endedBy,
          buf, prof, resp, steps, cpu, tracing, request, reader>>

Init ==
    /\ pc = [r \in Req |-> "idle"]
    /\ kind = [r \in Req |-> "none"]
    /\ seconds = [r \in Req |-> <<>>]
    /\ binary = [r \in Req |-> FALSE]
    /\ hasCN = [r \in Req |-> FALSE]
    /\ goneAt = [r \in Req |-> Never]
    /\ d = [r \in Req |-> 0]
    /\ elapsed = [r \in Req |-> 0]
    /\ endedBy = [r \in Req |-> "none"]
    /\ buf = [r \in Req |-> RawCapture(<<>>)]
    /\ prof = [r \in Req |-> NoProfile]
    /\ resp = [r \in Req |-> NewResponse]
    /\ steps = [r \in Req |-> <<>>]
    /\ cpu = IdleSampler
    /\ tracing = IdleSampler
    /\ request = [r \in Req |-> NoRequest]
    /\ reader = [r \in Req |-> NoReader]

\* net/http finishes the response when the handler returns: a handler that
\* wrote nothing gets an implicit WriteHeader(200).
Finish(w) == WriteHeader(w, StatusOK)

Step(r, name) == steps' = [steps EXCEPT ![r] = Append(@, name)]

\* sleep(w, d) is entered: the timer is created and, when w is a
\* CloseNotifier, clientGone is its channel (a nil channel otherwise).
EnterSleep(r, s, dur) ==
    /\ seconds' = [seconds EXCEPT ![r] = s]
    /\ d' = [d EXCEPT ![r] = dur]
    /\ \E cn \in BOOLEAN : hasCN' = [hasCN EXCEPT ![r] = cn]
    /\ pc' = [pc EXCEPT ![r] = "sleep"]
    /\ UNCHANGED <<goneAt, elapsed>>

\* sleep returns: its locals, and sec and d of its caller, which are not read
\* again, go out of scope.
LeaveSleep(r) ==
    /\ seconds' = [seconds EXCEPT ![r] = <<>>]
    /\ d' = [d EXCEPT ![r] = 0]
    /\ hasCN' = [hasCN EXCEPT ![r] = FALSE]
    /\ goneAt' = [goneAt EXCEPT ![r] = Never]

\* The capture is stopped: the time it ran is no longer of interest.
EndCapture(r) == elapsed' = [elapsed EXCEPT ![r] = 0]

\* ------------------------------------------------------------- sleep
\* The client closes the connection while the handler waits.
ClientGone(r) ==
    /\ pc[r] = "sleep"
    /\ goneAt[r] = Never
    /\ goneAt' = [goneAt EXCEPT ![r] = elapsed[r]]
    /\ UNCHANGED <<request, reader, pc, kind, binary, seconds, hasCN, d, elapsed, endedBy,
                   buf, prof, resp, steps, samplers>>

\* sleep that never takes clientGone for a channel
GoneSignalled_NilChannel(r) == hasCN[r] /\ FALSE

TimerFired(r) == elapsed[r] >= TimerDelay(d[r])
\* clientGone is a nil channel, never ready, unless w is a CloseNotifier
GoneSignalled(r) == hasCN[r] /\ goneAt[r] # Never
SleepReady(r) == pc[r] = "sleep" /\ (TimerFired(r) \/ GoneSignalled(r))

\* sleep(w, d): select { case <-time.After(d): case <-clientGone: }
sleep(r) ==
    /\ pc[r] = "sleep"
    /\ \E ev \in {"timer", "gone"} :
        /\ ev = "timer" => TimerFired(r)
        /\ ev = "gone" => GoneSignalled(r)
        /\ endedBy' = [endedBy EXCEPT ![r] = ev]
    /\ pc' = [pc EXCEPT ![r] = "woke"]
    /\ LeaveSleep(r)
    /\ UNCHANGED <<request, reader, kind, binary, elapsed, buf, prof, resp, steps, samplers>>

\* Time passes while some handler is blocked in sleep and no select is ready.
Sleeping == { r \in Req : pc[r] = "sleep" }
Advance(delta) ==
    /\ Sleeping # {}
    /\ \A r \in Sleeping : ~SleepReady(r)
    /\ elapsed' = [r \in Req |-> IF r \in Sleeping THEN elapsed[r] + delta ELSE elapsed[r]]
    /\ UNCHANGED <<request, reader, pc, kind, binary, seconds, hasCN, goneAt, d, endedBy,
                   buf, prof, resp, steps, samplers>>

\* One tick passes.
Tick ==
    /\ \A r \in Sleeping : elapsed[r] < MaxTime
    /\ Advance(1)

\* Time passes up to the expiry of the earliest timer.
Expire ==
    LET remaining == { TimerDelay(d[r]) - elapsed[r] : r \in Sleeping }
    IN  Advance(CHOOSE t \in remaining : \A u \in remaining : t <= u)

\* ----------------------------------------------------------- samplers
TraceChunks(w) == { i \in 1..Len(w.body) : w.body[i].type = "trace" }

\* The tracer writes trace data of the active trace to its sink, the response.
TraceSample ==
    /\ tracing.active
    /\ Cardinality(TraceChunks(resp[tracing.w])) < MaxSamples
    /\ resp' = [resp EXCEPT ![tracing.w] = Write(@, Bytes("trace", <<tracing.owner>>))]
    /\ UNCHANGED <<request, reader, pc, kind, binary, wait, endedBy, buf, prof, steps, samplers>>

\* ------------------------------------------------------------ /profile
\* Profile calling StopCPUProfile on its way out of a failed start
ProfileStart_StopOnError(r, inputs) ==
    /\ pc[r] = "idle"
    /\ kind' = [kind EXCEPT ![r] = "profile"]
    /\ LET w == SetContentType(resp[r], TextPlain)
           s == StartCPUProfile(cpu, r)
       IN  IF s.err
           THEN /\ resp' = [resp EXCEPT ![r] =
                        Finish(Write(WriteHeader(w, StatusInternalServerError),
                                     Text("Could not enable CPU profiling")))]
                /\ cpu' = StopCPUProfile(s.sampler)
                /\ pc' = [pc EXCEPT ![r] = "done"]
                /\ Step(r, "start_err")
                /\ UNCHANGED wait
           ELSE /\ resp' = [resp EXCEPT ![r] = w]
                /\ cpu' = s.sampler
                /\ \E sec \in inputs : EnterSleep(r, sec, ProfileDuration(sec))
                /\ Step(r, "start")
    /\ UNCHANGED <<request, reader, binary, endedBy, buf, prof, tracing>>

\* Profile, lines 85-104: parse seconds, start the capture and enter the
\* bounded wait, or answer 500 and return.
ProfileStart(r, inputs) ==
    /\ pc[r] = "idle"
    /\ kind' = [kind EXCEPT ![r] = "profile"]
    /\ LET w == SetContentType(resp[r], TextPlain)
           s == StartCPUProfile(cpu, r)
       IN  /\ cpu' = s.sampler
           /\ IF s.err
              THEN /\ resp' = [resp EXCEPT ![r] =
                           Finish(Write(WriteHeader(w, StatusInternalServerError),
                                        Text("Could not enable CPU profiling")))]
                   /\ pc' = [pc EXCEPT ![r] = "done"]
                   /\ Step(r, "start_err")
                   /\ UNCHANGED wait
              ELSE /\ resp' = [resp EXCEPT ![r] = w]
                   /\ \E sec \in inputs : EnterSleep(r, sec, ProfileDuration(sec))
                   /\ Step(r, "start")
    /\ UNCHANGED <<request, reader, binary, endedBy, buf, prof, tracing>>

\* Profile treating a wait ended by the client's disconnect as a failure
ProfileStop_ErrorOnGone(r) ==
    /\ pc[r] = "woke" /\ kind[r] = "profile"
    /\ cpu' = StopCPUProfile(cpu)
    /\ \E n \in 0..MaxSamples : buf' = Flush(cpu, buf, n)
    /\ \E b \in BoolInputs : binary' = [binary EXCEPT ![r] = ParseBool(b).val]
    /\ resp' = [resp EXCEPT ![r] =
            IF endedBy[r] = "gone"
            THEN Write(WriteHeader(@, StatusInternalServerError), Text("client gone"))
            ELSE @]
    /\ pc' = [pc EXCEPT ![r] = "stopped"]
    /\ Step(r, "stop")
    /\ EndCapture(r)
    /\ UNCHANGED <<request, reader, kind, endedBy, seconds, hasCN, goneAt, d, prof, tracing>>

\* Profile returning at once, without StopCPUProfile, when the client is gone
ProfileStop_SkipOnGone(r) ==
    /\ pc[r] = "woke" /\ kind[r] = "profile"
    /\ IF endedBy[r] = "gone"
       THEN /\ resp' = [resp EXCEPT ![r] = Finish(@)]
            /\ pc' = [pc EXCEPT ![r] = "done"]
            /\ UNCHANGED <<cpu, buf, binary, steps>>
       ELSE /\ cpu' = StopCPUProfile(cpu)
            /\ \E n \in 0..MaxSamples : buf' = Flush(cpu, buf, n)
            /\ \E b \in BoolInputs : binary' = [binary EXCEPT ![r] = ParseBool(b).val]
            /\ pc' = [pc EXCEPT ![r] = "stopped"]
            /\ Step(r, "stop")
            /\ UNCHANGED resp
    /\ EndCapture(r)
    /\ UNCHANGED <<request, reader, kind, endedBy, seconds, hasCN, goneAt, d, prof, tracing>>

\* Profile leaving StopCPUProfile to the end of the handler
ProfileStop_Deferred(r) ==
    /\ pc[r] = "woke" /\ kind[r] = "profile"
    /\ \E b \in BoolInputs : binary' = [binary EXCEPT ![r] = ParseBool(b).val]
    /\ pc' = [pc EXCEPT ![r] = "stopped"]
    /\ Step(r, "stop")
    /\ EndCapture(r)
    /\ UNCHANGED <<request, reader, kind, endedBy, seconds, hasCN, goneAt, d, buf, prof,
                   resp, samplers>>

\* Profile, line 105; binary (line 90) is first read after it
ProfileStop(r) ==
    /\ pc[r] = "woke" /\ kind[r] = "profile"
    /\ cpu' = StopCPUProfile(cpu)
    /\ \E n \in 0..MaxSamples : buf' = Flush(cpu, buf, n)
    /\ \E b \in BoolInputs : binary' = [binary EXCEPT ![r] = ParseBool(b).val]
    /\ pc' = [pc EXCEPT ![r] = "stopped"]
    /\ Step(r, "stop")
    /\ EndCapture(r)
    /\ UNCHANGED <<request, reader, kind, endedBy, seconds, hasCN, goneAt, d, prof, resp, tracing>>

\* Profile sending the raw capture under the text content type
ProfileBinary_NoContentType(r) ==
    /\ pc[r] = "stopped" /\ binary[r]
    /\ resp' = [resp EXCEPT ![r] = Finish(Write(@, buf[r]))]
    /\ pc' = [pc EXCEPT ![r] = "done"]
    /\ Step(r, "binary")
    /\ UNCHANGED <<request, reader, kind, binary, wait, endedBy, buf, prof, samplers>>

\* Profile, lines 109-113: the raw capture, as is
ProfileBinary(r) ==
    /\ pc[r] = "stopped" /\ binary[r]
    /\ resp' = [resp EXCEPT ![r] = Finish(Write(SetContentType(@, OctetStream), buf[r]))]
    /\ pc' = [pc EXCEPT ![r] = "done"]
    /\ Step(r, "binary")
    /\ UNCHANGED <<request, reader, kind, binary, wait, endedBy, buf, prof, samplers>>

\* Profile without the return after a parse failure
ProfileParse_NoReturn(r) ==
    /\ pc[r] = "stopped" /\ ~binary[r]
    /\ \E ok \in BOOLEAN :
        LET p == Parse(buf[r], ok)
        IN  /\ prof' = [prof EXCEPT ![r] = p.prof]
            /\ IF p.err
               THEN /\ resp' = [resp EXCEPT ![r] =
                            Write(WriteHeader(@, StatusInternalServerError),
                                  Text("Failed to parse profile"))]
                    /\ Step(r, "parse_err")
               ELSE /\ Step(r, "parse")
                    /\ UNCHANGED resp
    /\ pc' = [pc EXCEPT ![r] = "parsed"]
    /\ buf' = [buf EXCEPT ![r] = RawCapture(<<>>)]
    /\ UNCHANGED <<request, reader, kind, binary, wait, endedBy, samplers>>

\* Profile, lines 117-122
ProfileParse(r) ==
    /\ pc[r] = "stopped" /\ ~binary[r]
    /\ \E ok \in BOOLEAN :
        LET p == Parse(buf[r], ok)
        IN  /\ prof' = [prof EXCEPT ![r] = p.prof]
            /\ IF p.err
               THEN /\ resp' = [resp EXCEPT ![r] =
                            Finish(Write(WriteHeader(@, StatusInternalServerError),
                                         Text("Failed to parse profile")))]
                    /\ pc' = [pc EXCEPT ![r] = "done"]
                    /\ Step(r, "parse_err")
               ELSE /\ pc' = [pc EXCEPT ![r] = "parsed"]
                    /\ Step(r, "parse")
                    /\ UNCHANGED resp
    /\ buf' = [buf EXCEPT ![r] = RawCapture(<<>>)]
    /\ UNCHANGED <<request, reader, kind, binary, wait, endedBy, samplers>>

\* Profile returning after a symbolization failure
ProfileSymbolize_Return(r) ==
    /\ pc[r] = "parsed"
    /\ \E ok \in BOOLEAN :
        LET s == Symbolize(prof[r], ok)
        IN  /\ prof' = [prof EXCEPT ![r] = s.prof]
            /\ IF s.err
               THEN /\ resp' = [resp EXCEPT ![r] =
                            Finish(Write(WriteHeader(@, StatusInternalServerError),
                                         Text("Failed to symbolize profile")))]
                    /\ pc' = [pc EXCEPT ![r] = "done"]
                    /\ Step(r, "symbolize_err")
               ELSE /\ pc' = [pc EXCEPT ![r] = "symbolized"]
                    /\ Step(r, "symbolize")
                    /\ UNCHANGED resp
    /\ UNCHANGED <<request, reader, kind, binary, wait, endedBy, buf, samplers>>

\* Profile writing the warning without an error status
ProfileSymbolize_NoStatus(r) ==
    /\ pc[r] = "parsed"
    /\ \E ok \in BOOLEAN :
        LET s == Symbolize(prof[r], ok)
        IN  /\ prof' = [prof EXCEPT ![r] = s.prof]
            /\ IF s.err
               THEN /\ resp' = [resp EXCEPT ![r] =
                            Write(@, Text("Failed to symbolize profile"))]
                    /\ Step(r, "symbolize_err")
               ELSE /\ Step(r, "symbolize")
                    /\ UNCHANGED resp
    /\ pc' = [pc EXCEPT ![r] = "symbolized"]
    /\ UNCHANGED <<request, reader, kind, binary, wait, endedBy, buf, samplers>>

\* Profile, lines 125-128: no return after the error is written
ProfileSymbolize(r) ==
    /\ pc[r] = "parsed"
    /\ \E ok \in BOOLEAN :
        LET s == Symbolize(prof[r], ok)
        IN  /\ prof' = [prof EXCEPT ![r] = s.prof]
            /\ IF s.err
               THEN /\ resp' = [resp EXCEPT ![r] =
                            Write(WriteHeader(@, StatusInternalServerError),
                                  Text("Failed to symbolize profile"))]
                    /\ Step(r, "symbolize_err")
               ELSE /\ Step(r, "symbolize")
                    /\ UNCHANGED resp
    /\ pc' = [pc EXCEPT ![r] = "symbolized"]
    /\ UNCHANGED <<request, reader, kind, binary, wait, endedBy, buf, samplers>>

\* Profile, lines 131-142: render into the reused buffer and send it
ProfileReport(r) ==
    /\ pc[r] = "symbolized"
    /\ \E c \in BoolInputs :
        LET rpt == Generate(prof[r], ParseBool(c).val)
        IN  /\ buf' = [buf EXCEPT ![r] = rpt]
            /\ resp' = [resp EXCEPT ![r] = Finish(Write(@, rpt))]
    /\ pc' = [pc EXCEPT ![r] = "done"]
    /\ Step(r, "report")
    /\ UNCHANGED <<request, reader, kind, binary, wait, endedBy, prof, samplers>>

\* -------------------------------------------------------------- /trace
\* Trace stopping the tracer on its way out of a failed start
TraceStart_StopOnError(r, inputs) ==
    /\ pc[r] = "idle"
    /\ kind' = [kind EXCEPT ![r] = "trace"]
    /\ LET w == SetContentType(resp[r], OctetStream)
           s == traceStart(tracing, r)
       IN  IF s.err
           THEN /\ resp' = [resp EXCEPT ![r] =
                        Finish(Write(WriteHeader(SetContentType(w, TextPlain),
                                                 StatusInternalServerError),
                                     Text("Could not enable tracing")))]
                /\ tracing' = traceStop(s.sampler)
                /\ pc' = [pc EXCEPT ![r] = "done"]
                /\ Step(r, "start_err")
                /\ UNCHANGED wait
           ELSE /\ resp' = [resp EXCEPT ![r] = w]
                /\ tracing' = s.sampler
                /\ \E sec \in inputs : EnterSleep(r, sec, TraceDuration(sec))
                /\ Step(r, "start")
    /\ UNCHANGED <<request, reader, binary, endedBy, buf, prof, cpu>>

\* Trace, lines 150-166
TraceStart(r, inputs) ==
    /\ pc[r] = "idle"
    /\ kind' = [kind EXCEPT ![r] = "trace"]
    /\ LET w == SetContentType(resp[r], OctetStream)
           s == traceStart(tracing, r)
       IN  /\ tracing' = s.sampler
           /\ IF s.err
              THEN /\ resp' = [resp EXCEPT ![r] =
                           Finish(Write(WriteHeader(SetContentType(w, TextPlain),
                                                    StatusInternalServerError),
                                        Text("Could not enable tracing")))]
                   /\ pc' = [pc EXCEPT ![r] = "done"]
                   /\ Step(r, "start_err")
                   /\ UNCHANGED wait
              ELSE /\ resp' = [resp EXCEPT ![r] = w]
                   /\ \E sec \in inputs : EnterSleep(r, sec, TraceDuration(sec))
                   /\ Step(r, "start")
    /\ UNCHANGED <<request, reader, binary, endedBy, buf, prof, cpu>>

\* Trace, line 167, and the handler's return
TraceStop(r) ==
    /\ pc[r] = "woke" /\ kind[r] = "trace"
    /\ tracing' = traceStop(tracing)
    /\ resp' = [resp EXCEPT ![r] = Finish(@)]
    /\ pc' = [pc EXCEPT ![r] = "done"]
    /\ Step(r, "stop")
    /\ EndCapture(r)
    /\ UNCHANGED <<request, reader, kind, binary, endedBy, seconds, hasCN, goneAt, d, buf, prof, cpu>>

\* ------------------------------------------------------------- /symbol
others == <<binary, wait, endedBy, prof, samplers>>

\* Symbol's loop printing a line for every nonzero counter, inside a
\* function or not
SymbolLines_UnknownPrinted(word, err) ==
    LET pcv == ParseUint(word).val
    IN  (IF pcv # 0 THEN <<SymbolLine(pcv, FuncForPC(pcv))>> ELSE <<>>)
        \o (IF err # "" /\ err # EOF THEN <<Textf("reading request: ", err)>> ELSE <<>>)

\* Symbol's loop reporting the end of the input as a read error
SymbolLines_EOFReported(word, err) ==
    LET pcv == ParseUint(word).val
        name == FuncForPC(pcv)
    IN  (IF pcv # 0 /\ name # NilFunc THEN <<SymbolLine(pcv, name)>> ELSE <<>>)
        \o (IF err # "" THEN <<Textf("reading request: ", err)>> ELSE <<>>)

\* The body of Symbol's loop after ReadSlice, lines 198-211: the line of the
\* token, when it is a nonzero counter inside a function, and the line of a
\* read error other than io.EOF.
SymbolLines(word, err) ==
    LET pcv == ParseUint(word).val
        name == FuncForPC(pcv)
    IN  (IF pcv # 0 /\ name # NilFunc THEN <<SymbolLine(pcv, name)>> ELSE <<>>)
        \o (IF err # "" /\ err # EOF THEN <<Textf("reading request: ", err)>> ELSE <<>>)

\* Symbol without the marker line
SymbolStart_NoMarker(r, inputs) ==
    /\ pc[r] = "idle"
    /\ kind' = [kind EXCEPT ![r] = "symbol"]
    /\ \E m \in Methods, data \in inputs, e \in BodyErrors :
        LET req == IF m = "POST"
                   THEN [NoRequest EXCEPT !.Method = m, !.RawQuery = <<"1">>,
                                          !.Body = data, !.BodyErr = e]
                   ELSE [NoRequest EXCEPT !.Method = m, !.RawQuery = data,
                                          !.Body = <<"1">>, !.BodyErr = EOF]
        IN  /\ m # "POST" => e = EOF
            /\ request' = [request EXCEPT ![r] = req]
            /\ reader' = [reader EXCEPT ![r] =
                    IF req.Method = "POST" THEN NewReader(req.Body, req.BodyErr)
                    ELSE NewReader(req.RawQuery, EOF)]
    /\ resp' = [resp EXCEPT ![r] = SetContentType(@, TextPlain)]
    /\ buf' = [buf EXCEPT ![r] = Bytes("symbols", <<>>)]
    /\ pc' = [pc EXCEPT ![r] = "reading"]
    /\ Step(r, "buffer")
    /\ UNCHANGED others

\* Symbol, lines 174-191: the content type, the marker line in the buffer,
\* and the reader over the body of a POST or the raw query of anything else.
\* (What the handler does not read, the query of a POST and the body of a
\* GET, holds a token of its own.)
SymbolStart(r, inputs) ==
    /\ pc[r] = "idle"
    /\ kind' = [kind EXCEPT ![r] = "symbol"]
    /\ \E m \in Methods, data \in inputs, e \in BodyErrors :
        LET req == IF m = "POST"
                   THEN [NoRequest EXCEPT !.Method = m, !.RawQuery = <<"1">>,
                                          !.Body = data, !.BodyErr = e]
                   ELSE [NoRequest EXCEPT !.Method = m, !.RawQuery = data,
                                          !.Body = <<"1">>, !.BodyErr = EOF]
        IN  /\ m # "POST" => e = EOF
            /\ request' = [request EXCEPT ![r] = req]
            /\ reader' = [reader EXCEPT ![r] =
                    IF req.Method = "POST" THEN NewReader(req.Body, req.BodyErr)
                    ELSE NewReader(req.RawQuery, EOF)]
    /\ resp' = [resp EXCEPT ![r] = SetContentType(@, TextPlain)]
    /\ buf' = [buf EXCEPT ![r] = Bytes("symbols", <<Text("num_symbols: 1")>>)]
    /\ pc' = [pc EXCEPT ![r] = "reading"]
    /\ Step(r, "buffer")
    /\ UNCHANGED others

\* Symbol printing the lines of each token straight to the response
SymbolWord_Unbuffered(r) ==
    /\ pc[r] = "reading"
    /\ LET rs == ReadSlice(reader[r])
           word == IF rs.err = "" THEN SubSeq(rs.line, 1, Len(rs.line) - 1) ELSE rs.line
           out == SymbolLines(word, rs.err)
       IN  /\ reader' = [reader EXCEPT ![r] = rs.rest]
           /\ buf' = [buf EXCEPT ![r].data = @ \o out]
           /\ resp' = [resp EXCEPT ![r] =
                   IF out = <<>> THEN @ ELSE Write(@, Bytes("symbols", out))]
           /\ pc' = [pc EXCEPT ![r] = IF rs.err # "" THEN "read" ELSE "reading"]
    /\ Step(r, "read")
    /\ UNCHANGED <<kind, request, others>>

\* Symbol taking, for each token, a lock that a capture holds while it runs
SymbolWord_UnderCaptureLock(r) ==
    /\ pc[r] = "reading"
    /\ ~cpu.active /\ ~tracing.active
    /\ LET rs == ReadSlice(reader[r])
           word == IF rs.err = "" THEN SubSeq(rs.line, 1, Len(rs.line) - 1) ELSE rs.line
       IN  /\ reader' = [reader EXCEPT ![r] = rs.rest]
           /\ buf' = [buf EXCEPT ![r].data = @ \o SymbolLines(word, rs.err)]
           /\ pc' = [pc EXCEPT ![r] = IF rs.err # "" THEN "read" ELSE "reading"]
    /\ Step(r, "read")
    /\ UNCHANGED <<kind, request, resp, others>>

\* Symbol, lines 193-214: one iteration of the loop
SymbolWord(r) ==
    /\ pc[r] = "reading"
    /\ LET rs == ReadSlice(reader[r])
           word == IF rs.err = "" THEN SubSeq(rs.line, 1, Len(rs.line) - 1) ELSE rs.line
       IN  /\ reader' = [reader EXCEPT ![r] = rs.rest]
           /\ buf' = [buf EXCEPT ![r].data = @ \o SymbolLines(word, rs.err)]
           /\ pc' = [pc EXCEPT ![r] = IF rs.err # "" THEN "read" ELSE "reading"]
    /\ Step(r, "read")
    /\ UNCHANGED <<kind, request, resp, others>>

\* Symbol, line 216, and the handler's return
SymbolWrite(r) ==
    /\ pc[r] = "read"
    /\ resp' = [resp EXCEPT ![r] = Finish(Write(@, buf[r]))]
    /\ pc' = [pc EXCEPT ![r] = "done"]
    /\ Step(r, "write")
    /\ UNCHANGED <<kind, request, reader, buf, others>>

\* ------------------------------------------- index and named profiles
\* ServeHTTP without the return after the 404
ServeHTTP_NoReturn(name, req, w, st) ==
    LET text == SetContentType(w, TextPlain)
        debug == ParseInt(req.debug).val
        gc == ParseInt(req.gc).val
        found == IF Lookup(name) THEN text
                 ELSE Write(WriteHeader(text, StatusNotFound), Textf("Unknown profile: ", name))
    IN  [w |-> Write(found, Bytes("dump", <<name, debug>>)),
         steps |-> st \o (IF Lookup(name) THEN <<"lookup">> ELSE <<"lookup_err">>)
                      \o (IF name = <<"heap">> /\ gc > 0 THEN <<"gc", "dump">> ELSE <<"dump">>)]

\* ServeHTTP collecting after the dump is written
ServeHTTP_CollectAfterDump(name, req, w, st) ==
    LET text == SetContentType(w, TextPlain)
        debug == ParseInt(req.debug).val
        gc == ParseInt(req.gc).val
    IN  IF ~Lookup(name)
        THEN [w |-> Write(WriteHeader(text, StatusNotFound), Textf("Unknown profile: ", name)),
              steps |-> st \o <<"lookup_err">>]
        ELSE [w |-> Write(text, Bytes("dump", <<name, debug>>)),
              steps |-> st \o (IF name = <<"heap">> /\ gc > 0
                               THEN <<"lookup", "dump", "gc">>
                               ELSE <<"lookup", "dump">>)]

\* handler.ServeHTTP, lines 38-53, on the response w and the calls st made so
\* far: strconv.Atoi is ParseInt; runtime.GC() is the call "gc", p.WriteTo
\* the call "dump".
ServeHTTP(name, req, w, st) ==
    LET text == SetContentType(w, TextPlain)
        debug == ParseInt(req.debug).val
        gc == ParseInt(req.gc).val
    IN  IF ~Lookup(name)
        THEN [w |-> Write(WriteHeader(text, StatusNotFound), Textf("Unknown profile: ", name)),
              steps |-> st \o <<"lookup_err">>]
        ELSE [w |-> Write(text, Bytes("dump", <<name, debug>>)),
              steps |-> st \o (IF name = <<"heap">> /\ gc > 0
                               THEN <<"lookup", "gc", "dump">>
                               ELSE <<"lookup", "dump">>)]

\* Index, lines 59-72: any path but "/" is a named profile; "/" is the page
\* listing the profiles.
Index(r, paths) ==
    /\ pc[r] = "idle"
    /\ kind' = [kind EXCEPT ![r] = "index"]
    /\ \E path \in paths :
        IF path # <<"/">>
        THEN \E g \in GcInputs, dbg \in DebugInputs :
                LET req == [NoRequest EXCEPT !.Path = path, !.gc = g, !.debug = dbg]
                    s == ServeHTTP(TrimPrefix(path, "/"), req, resp[r], steps[r])
                IN  /\ request' = [request EXCEPT ![r] = req]
                    /\ resp' = [resp EXCEPT ![r] = Finish(s.w)]
                    /\ steps' = [steps EXCEPT ![r] = s.steps]
        ELSE /\ request' = [request EXCEPT ![r] = [NoRequest EXCEPT !.Path = path]]
             /\ resp' = [resp EXCEPT ![r] = Finish(Write(@, Bytes("index", <<Profiles>>)))]
             /\ Step(r, "index")
    /\ pc' = [pc EXCEPT ![r] = "done"]
    /\ UNCHANGED <<reader, buf, others>>

\* --------------------------------------------------------------- system
\* The steps of a handler after its start, the samplers and the clock.
Run ==
    \/ \E r \in Req : ClientGone(r)
    \/ \E r \in Req : sleep(r)
    \/ \E r \in Req : ProfileStop(r)
    \/ \E r \in Req : ProfileBinary(r)
    \/ \E r \in Req : ProfileParse(r)
    \/ \E r \in Req : ProfileSymbolize(r)
    \/ \E r \in Req : ProfileReport(r)
    \/ \E r \in Req : TraceStop(r)
    \/ TraceSample
    \/ Expire

\* Requests racing each other: every request goroutine may serve /profile or
\* /trace at any time.  Time moves from one timer's expiry to the next, so a
\* client disconnects when a wait begins or when a timer fires.
Next ==
    \/ \E r \in Req : ProfileStart(r, RaceInputs)
    \/ \E r \in Req : TraceStart(r, RaceInputs)
    \/ Run

Spec == Init /\ [][Next]_vars

\* The steps of one handler goroutine after its start.
Handler(r) ==
    \/ sleep(r)
    \/ ProfileStop(r)
    \/ ProfileBinary(r)
    \/ ProfileParse(r)
    \/ ProfileSymbolize(r)
    \/ ProfileReport(r)
    \/ TraceStop(r)

\* A handler goroutine that can run is scheduled, and time does not stand
\* still while every waiting handler waits for its timer.
Fairness == WF_vars(Expire) /\ \A r \in Req : WF_vars(Handler(r))

\* Two requests racing each other for /profile and /trace, under fair
\* scheduling.
Racers == {1, 2}

NextLive ==
    \/ \E r \in Racers : ProfileStart(r, RaceInputs)
    \/ \E r \in Racers : TraceStart(r, RaceInputs)
    \/ Run

SpecLive == Init /\ [][NextLive]_vars /\ Fairness

\* A single request, over every "seconds" value, with a client that may
\* disconnect at any tick of the wait.
NextSingle ==
    \/ ProfileStart(1, SecondsInputs)
    \/ TraceStart(1, SecondsInputs)
    \/ Tick
    \/ Run

SpecSingle == Init /\ [][NextSingle]_vars

\* A single request for /symbol, over every token list, or for the index and
\* the named profiles.
NextLookup ==
    \/ SymbolStart(1, SymbolInputs)
    \/ SymbolWord(1)
    \/ SymbolWrite(1)
    \/ Index(1, Paths)

SpecLookup == Init /\ [][NextLookup]_vars

\* Request 1 runs a capture; the other request goroutines serve the /symbol
\* and index requests that arrive while it waits in sleep.
Servers == Req \ {1}
SymbolArrives(q) == pc[1] = "sleep" /\ SymbolStart(q, ParallelInputs)
IndexArrives(q) == pc[1] = "sleep" /\ Index(q, {<<"/">>})

NextParallel ==
    \/ ProfileStart(1, RaceInputs)
    \/ TraceStart(1, RaceInputs)
    \/ \E q \in Servers : SymbolArrives(q)
    \/ \E q \in Servers : IndexArrives(q)
    \/ \E q \in Servers : SymbolWord(q)
    \/ \E q \in Servers : SymbolWrite(q)
    \/ Run

SpecParallel == Init /\ [][NextParallel]_vars

\* ============================================================ properties
Min(a, b) == IF a <= b THEN a ELSE b
InSteps(r, name) == \E i \in 1..Len(steps[r]) : steps[r][i] = name
Waiting(r) == pc[r] \in {"sleep", "woke"}

\* C1: of two /profile requests that overlap (the second starts while the
\* first is in its bounded wait) exactly one holds the capture: the first
\* keeps it, and the second is answered 500 with the start error in the very
\* step of its start, without ever entering the wait.
C1_OneCaptureLoserFails ==
    /\ [](Cardinality({ r \in Req : kind[r] = "profile" /\ Waiting(r) }) <= 1)
    /\ [][\A r, q \in Req :
            ( /\ q # r
              /\ kind[q] = "profile" /\ pc[q] = "sleep"
              /\ pc[r] = "idle" /\ kind'[r] = "profile" )
            => ( /\ pc'[r] = "done"
                 /\ resp'[r].status = StatusInternalServerError
                 /\ resp'[r].body = <<Text("Could not enable CPU profiling")>>
                 /\ steps'[r] = <<"start_err">>
                 /\ pc'[q] = "sleep"
                 /\ cpu'.active /\ cpu'.owner = q /\ cpu'.w = q )]_vars

C1_Witness ==
    \E r, q \in Req :
        /\ q # r
        /\ kind[q] = "profile" /\ pc[q] = "sleep" /\ cpu.owner = q
        /\ kind[r] = "profile" /\ pc[r] = "done"
        /\ steps[r] = <<"start_err">>
        /\ resp[r].status = StatusInternalServerError

\* C2: a /profile or /trace request whose start fails is answered 500 with a
\* text/plain diagnostic and returns in that step: it never waits, calls
\* neither stop nor start again, and leaves both samplers as they were.
C2_FailedStartLeavesSamplers ==
    [][\A r \in Req :
        ( /\ pc[r] = "idle" /\ pc'[r] # "idle"
          /\ \/ kind'[r] = "profile" /\ cpu.active
             \/ kind'[r] = "trace" /\ tracing.active )
        => ( /\ pc'[r] = "done"
             /\ resp'[r].status = StatusInternalServerError
             /\ resp'[r].sentCT = TextPlain
             /\ Len(resp'[r].body) = 1 /\ resp'[r].body[1].type = "text"
             /\ steps'[r] = <<"start_err">>
             /\ endedBy'[r] = "none" /\ elapsed'[r] = 0
             /\ cpu' = cpu /\ tracing' = tracing )]_vars

C2_Witness ==
    \E r, q \in Req :
        /\ q # r
        /\ kind[r] = "trace" /\ pc[r] = "done" /\ steps[r] = <<"start_err">>
        /\ resp[r].sentCT = TextPlain
        /\ tracing.active /\ tracing.owner = q /\ pc[q] = "sleep"

\* C3: when sleep returns, the time spent in it is the earlier of the timer's
\* expiry (the requested duration; at once for a duration <= 0) and the
\* disconnect signal; with no CloseNotifier it is the timer's expiry.
C3_WaitEndsAtFirstEvent ==
    [][\A r \in Req :
        (pc[r] = "sleep" /\ pc'[r] = "woke") =>
            LET delay == TimerDelay(d[r])
                signal == hasCN[r] /\ goneAt[r] # Never
            IN  /\ elapsed[r] = IF signal THEN Min(delay, goneAt[r]) ELSE delay
                /\ d[r] >= 0 => elapsed[r] = IF signal THEN Min(d[r], goneAt[r]) ELSE d[r]
                /\ endedBy'[r] = "timer" => elapsed[r] = delay
                /\ endedBy'[r] = "gone" => signal /\ elapsed[r] = goneAt[r]
                /\ ~hasCN[r] => endedBy'[r] = "timer"
                /\ elapsed'[r] = elapsed[r]]_vars

\* A wait ended by the disconnect signal one tick after it began, before any
\* timer of SecondsInputs expires.
C3_Witness ==
    \E r \in Req : pc[r] = "woke" /\ endedBy[r] = "gone" /\ elapsed[r] = 1

\* The runs of a /profile handler whose capture started.
ProfileRuns ==
    { <<"start", "stop", "binary">>,
      <<"start", "stop", "parse_err">>,
      <<"start", "stop", "parse", "symbolize", "report">>,
      <<"start", "stop", "parse", "symbolize_err", "report">> }

\* C4: a /profile wait ended by the client's disconnect is followed by the
\* same steps as one ended by the timer: stop, then the binary return of the
\* buffer or parse, symbolize and render; an error status is set only by a
\* parse or symbolization failure.
C4_DisconnectIsNoError ==
    \A r \in Req :
        (kind[r] = "profile" /\ endedBy[r] \in {"timer", "gone"}) =>
            /\ pc[r] = "woke" => steps[r] = <<"start">> /\ cpu.owner = r
            /\ pc[r] # "woke" => SubSeq(steps[r], 1, 2) = <<"start", "stop">>
            /\ pc[r] = "done" => steps[r] \in ProfileRuns
            /\ resp[r].status = StatusInternalServerError
                   => InSteps(r, "parse_err") \/ InSteps(r, "symbolize_err")
            /\ (pc[r] = "done" /\ ~InSteps(r, "parse_err") /\ ~InSteps(r, "symbolize_err"))
                   => resp[r].status = StatusOK

C4_Witness ==
    \E r \in Req :
        /\ kind[r] = "profile" /\ endedBy[r] = "gone" /\ pc[r] = "done"
        /\ steps[r] = <<"start", "stop", "parse", "symbolize", "report">>
        /\ resp[r].status = StatusOK
        /\ Len(resp[r].body[1].data) > 0

\* C5: /profile with seconds=0 or no seconds waits as long as seconds=30;
\* /trace with seconds <= 0, missing or unparsable waits as long as seconds=1.
C5_DefaultDurations ==
    \A r \in Req :
        pc[r] = "sleep" =>
            /\ (kind[r] = "profile" /\ seconds[r] \in {<<>>, <<"0">>})
                   => /\ d[r] = ProfileDuration(<<"3", "0">>)
                      /\ d[r] = DefaultProfileSeconds * Second
            /\ (kind[r] = "trace" /\ seconds[r] \in {<<>>, <<"0">>, <<"-", "1">>, <<"x">>})
                   => /\ d[r] = TraceDuration(<<"1">>)
                      /\ d[r] = DefaultTraceSeconds * Second

C5_Witness ==
    \E r \in Req :
        /\ kind[r] = "trace" /\ seconds[r] = <<"x">>
        /\ pc[r] = "sleep" /\ TimerFired(r) /\ elapsed[r] = Second

\* C6: /profile with a negative or invalid seconds waits the 30 second
\* default, never a wait that ends at once.
C6_NegativeClamped ==
    \A r \in Req :
        ( /\ pc[r] = "sleep" /\ kind[r] = "profile"
          /\ seconds[r] \in {<<"-", "1">>, <<"x">>, <<".", "5">>} )
        => /\ d[r] = DefaultProfileSeconds * Second
           /\ TimerDelay(d[r]) > 0

\* C7: /profile with binary=true answers application/octet-stream with the
\* raw capture of its buffer as the whole body, and neither parses,
\* symbolizes nor renders.
C7_BinaryIsRawCapture ==
    \A r \in Req :
        (kind[r] = "profile" /\ binary[r]) =>
            /\ pc[r] \in {"stopped", "done"}
            /\ prof[r] = NoProfile
            /\ buf[r].type = "raw"
            /\ \A i \in 1..Len(buf[r].data) : buf[r].data[i] = r
            /\ pc[r] = "stopped" => ~resp[r].wroteHeader /\ resp[r].body = <<>>
            /\ pc[r] = "done" =>
                /\ resp[r].sentCT = OctetStream
                /\ resp[r].status = StatusOK
                /\ resp[r].body = <<buf[r]>>
                /\ steps[r] = <<"start", "stop", "binary">>

C7_Witness ==
    \E r \in Req :
        /\ kind[r] = "profile" /\ binary[r] /\ pc[r] = "done"
        /\ resp[r].sentCT = OctetStream
        /\ Len(resp[r].body) = 1 /\ Len(resp[r].body[1].data) > 0

\* C8: a parse failure ends the /profile request with 500 and the diagnostic
\* as the whole body: nothing is symbolized, rendered or written after it.
C8_ParseFailureIsFatal ==
    \A r \in Req :
        InSteps(r, "parse_err") =>
            /\ pc[r] = "done"
            /\ steps[r] = <<"start", "stop", "parse_err">>
            /\ resp[r].status = StatusInternalServerError
            /\ resp[r].sentCT = TextPlain
            /\ resp[r].body = <<Text("Failed to parse profile")>>
            /\ ~prof[r].parsed

C8_Witness ==
    \E r \in Req :
        /\ pc[r] = "done" /\ steps[r] = <<"start", "stop", "parse_err">>
        /\ resp[r].status = StatusInternalServerError

\* C9: a symbolization failure does not end the /profile request: the
\* warning is written, and the report rendered from the profile as it is
\* (nothing resolved) is written after it.
C9_SymbolizeFailureContinues ==
    \A r \in Req :
        InSteps(r, "symbolize_err") =>
            /\ pc[r] \in {"symbolized", "done"}
            /\ pc[r] = "symbolized" =>
                /\ steps[r] = <<"start", "stop", "parse", "symbolize_err">>
                /\ resp[r].body = <<Text("Failed to symbolize profile")>>
            /\ pc[r] = "done" =>
                /\ steps[r] = <<"start", "stop", "parse", "symbolize_err", "report">>
                /\ Len(resp[r].body) = 2
                /\ resp[r].body[1] = Text("Failed to symbolize profile")
                /\ resp[r].body[2] = buf[r]
                /\ resp[r].body[2].type = "report"
                /\ resp[r].body[2].data = prof[r].samples
                /\ resp[r].body[2].sym = prof[r].resolved

C9_Witness ==
    \E r \in Req :
        /\ pc[r] = "done" /\ InSteps(r, "symbolize_err")
        /\ Len(resp[r].body) = 2 /\ resp[r].body[2].type = "report"
        /\ Len(resp[r].body[2].data) > 0

\* C10 as stated: a /profile request whose symbolization fails is answered
\* with status 200 and a report of unresolved program counters.
C10_StatusOK ==
    \A r \in Req :
        (pc[r] = "done" /\ InSteps(r, "symbolize_err")) =>
            /\ resp[r].status = StatusOK
            /\ resp[r].body[Len(resp[r].body)].type = "report"
            /\ ~resp[r].body[Len(resp[r].body)].sym

\* C10 amended: a /profile request whose symbolization fails is answered
\* with status 500, set before the warning is written, and still carries the
\* report of unresolved program counters.
C10_StatusErrorWithReport ==
    \A r \in Req :
        InSteps(r, "symbolize_err") =>
            /\ resp[r].status = StatusInternalServerError
            /\ resp[r].sentCT = TextPlain
            /\ pc[r] = "done" =>
                /\ resp[r].body[Len(resp[r].body)].type = "report"
                /\ ~resp[r].body[Len(resp[r].body)].sym

C10_Witness ==
    \E r \in Req :
        /\ pc[r] = "done" /\ InSteps(r, "symbolize_err")
        /\ resp[r].status = StatusInternalServerError
        /\ resp[r].body[2].type = "report" /\ ~resp[r].body[2].sym

\* ------------------------------------------------------------- /symbol
\* The tokens of a '+'-delimited list, split at its delimiters from the right.
RECURSIVE Split(_)
Split(s) ==
    LET delims == { i \in 1..Len(s) : s[i] = "+" }
    IN  IF delims = {} THEN <<s>>
        ELSE LET i == CHOOSE j \in delims : \A k \in delims : k <= j
             IN  Append(Split(SubSeq(s, 1, i - 1)), SubSeq(s, i + 1, Len(s)))

\* The token list a /symbol request gives: the body of a POST, the query
\* string of a GET.
Given(r) == IF request[r].Method = "POST" THEN request[r].Body ELSE request[r].RawQuery

\* A token that parses to a nonzero unsigned integer owned by a known function.
Resolvable(tok) ==
    /\ ~ParseUint(tok).err
    /\ ParseUint(tok).val # 0
    /\ FuncForPC(ParseUint(tok).val) # NilFunc

IsSymbolLine(l) == l.type = "symbol"
IsTextLine(l) == l.type = "text"
Answered(r) == kind[r] = "symbol" /\ pc[r] = "done"
Marker == Text("num_symbols: 1")

\* C11: the answer of /symbol holds, in input order, exactly one line
\* "<hex address> <function name>" for every token of the given list (query
\* string of a GET, body of a POST) that parses to a nonzero unsigned integer
\* owned by a function, and no line for any other token; a skipped token is
\* no error and later tokens are still processed.
C11_OneLinePerResolvableToken ==
    \A r \in Req :
        Answered(r) =>
            LET lines == SelectSeq(resp[r].body[1].data, IsSymbolLine)
                texts == SelectSeq(resp[r].body[1].data, IsTextLine)
                toks == SelectSeq(Split(Given(r)), Resolvable)
            IN  /\ Len(resp[r].body) = 1
                /\ Len(lines) = Len(toks)
                /\ \A i \in 1..Len(toks) :
                    /\ SubSeq(lines[i].data, 1, 2) = <<"0", "x">>
                    /\ ParseUint(lines[i].data) = ParseUint(toks[i])
                    /\ lines[i].text = FuncForPC(ParseUint(toks[i]).val)
                /\ resp[r].status = StatusOK
                /\ request[r].BodyErr = EOF => texts = <<Marker>>
                /\ reader[r].data = <<>>

\* A zero and an unparsable token are skipped, and the hexadecimal token
\* after them is resolved.
C11_Witness ==
    \E r \in Req :
        /\ Answered(r)
        /\ Given(r) = <<"0", "+", "x", "+", "0", "x", "a">>
        /\ resp[r].body[1].data = <<Marker, SymbolLine(10, "main.f")>>

Count(s, x) == Cardinality({ i \in 1..Len(s) : s[i] = x })

\* C12: the output of /symbol begins with the marker line "num_symbols: 1":
\* it is in the buffer before the first token is read, is the first line of
\* the body, before every symbol line, and occurs once, however many tokens
\* were given or resolved.
C12_MarkerFirstOnce ==
    \A r \in Req :
        kind[r] = "symbol" =>
            /\ Len(buf[r].data) >= 1 /\ buf[r].data[1] = Marker
            /\ Count(buf[r].data, Marker) = 1
            /\ \A i \in 2..Len(buf[r].data) : buf[r].data[i].type \in {"symbol", "text"}
            /\ pc[r] = "done" =>
                /\ Len(resp[r].body) = 1 /\ resp[r].body[1].data = buf[r].data
                /\ resp[r].body[1].data[1] = Marker
                /\ Count(resp[r].body[1].data, Marker) = 1
                /\ \A i \in 1..Len(resp[r].body[1].data) :
                        IsSymbolLine(resp[r].body[1].data[i]) => i > 1

\* Three tokens, all resolved, under one marker.
C12_Witness ==
    \E r \in Req :
        /\ Answered(r)
        /\ Len(Split(Given(r))) = 3
        /\ Len(resp[r].body[1].data) = 4
        /\ resp[r].body[1].data[1] = Marker
        /\ \A i \in 2..4 : IsSymbolLine(resp[r].body[1].data[i])

\* C13: when reading the input of /symbol ends with an error other than
\* io.EOF, the line "reading request: <error>" is the last line of the
\* output, after the marker and the lines of the tokens read before it, which
\* are all delivered, and no more is read; when the input ends with io.EOF
\* there is no such line.
C13_ReadErrorReportedInline ==
    \A r \in Req :
        Answered(r) =>
            LET out == resp[r].body[1].data
                failed == request[r].Method = "POST" /\ request[r].BodyErr # EOF
                errLine == Textf("reading request: ", request[r].BodyErr)
            IN  /\ Len(resp[r].body) = 1
                /\ Len(SelectSeq(out, IsSymbolLine))
                       = Len(SelectSeq(Split(Given(r)), Resolvable))
                /\ Count(steps[r], "read") = Len(Split(Given(r)))
                /\ failed => /\ out[Len(out)] = errLine
                             /\ SelectSeq(out, IsTextLine) = <<Marker, errLine>>
                /\ ~failed => SelectSeq(out, IsTextLine) = <<Marker>>

\* A body whose reading fails after two resolvable tokens.
C13_Witness ==
    \E r \in Req :
        /\ Answered(r)
        /\ request[r].Method = "POST" /\ request[r].BodyErr = ErrUnexpectedEOF
        /\ resp[r].body[1].data =
               <<Marker, SymbolLine(1, "main.main"), SymbolLine(10, "main.f"),
                 Textf("reading request: ", ErrUnexpectedEOF)>>

\* ------------------------------------------------------ named profiles
\* A finished request for the named profile of its path.
Named(r) == kind[r] = "index" /\ pc[r] = "done" /\ request[r].Path # <<"/">>
NameOf(r) == Tail(request[r].Path)
Position(s, x) == CHOOSE i \in 1..Len(s) : s[i] = x

\* C14: a request for a named profile that is not registered is answered 404
\* with the text/plain body "Unknown profile: <name>", and neither
\* runtime.GC nor the profile's WriteTo is called for it.
C14_UnknownProfileNotFound ==
    \A r \in Req :
        (Named(r) /\ NameOf(r) \notin Profiles) =>
            /\ resp[r].status = StatusNotFound
            /\ resp[r].sentCT = TextPlain
            /\ resp[r].body = <<Textf("Unknown profile: ", NameOf(r))>>
            /\ ~InSteps(r, "gc") /\ ~InSteps(r, "dump")
            /\ steps[r] = <<"lookup_err">>

C14_Witness ==
    \E r \in Req :
        /\ Named(r) /\ request[r].Path = <<"/", "nosuch">> /\ request[r].gc = <<"1">>
        /\ resp[r].status = StatusNotFound
        /\ resp[r].body = <<Textf("Unknown profile: ", <<"nosuch">>)>>

\* C15 as stated: a collection pass is triggered if and only if the profile
\* is "heap" and gc=1 is given, and then before the dump.
C15_CollectOnlyForGcOne ==
    \A r \in Req :
        Named(r) =>
            /\ InSteps(r, "gc") <=> (NameOf(r) = <<"heap">> /\ request[r].gc = <<"1">>)
            /\ InSteps(r, "gc") =>
                   InSteps(r, "dump") /\ Position(steps[r], "gc") < Position(steps[r], "dump")

\* C15 amended: a collection pass is triggered if and only if the profile is
\* "heap" and gc is a positive integer (gc=1, gc=2, ...), and then once and
\* before the dump; with gc=0, negative, unparsable or omitted, or for any
\* other profile, there is none.
C15_CollectForPositiveGc ==
    \A r \in Req :
        Named(r) =>
            /\ InSteps(r, "gc") <=>
                   ( /\ NameOf(r) = <<"heap">>
                     /\ request[r].gc # <<>> /\ AllDigits(request[r].gc)
                     /\ \E i \in 1..Len(request[r].gc) : request[r].gc[i] # "0" )
            /\ InSteps(r, "gc") =>
                /\ Count(steps[r], "gc") = 1
                /\ InSteps(r, "dump") /\ Position(steps[r], "gc") < Position(steps[r], "dump")
            /\ request[r].gc \in {<<>>, <<"0">>} => ~InSteps(r, "gc")
            /\ NameOf(r) # <<"heap">> => ~InSteps(r, "gc")

C15_Witness ==
    \E r \in Req :
        /\ Named(r) /\ request[r].Path = <<"/", "heap">> /\ request[r].gc = <<"1">>
        /\ steps[r] = <<"lookup", "gc", "dump">>
        /\ resp[r].status = StatusOK

\* ---------------------------------------------------- capture lifecycle
\* The sampler a request's handler starts and stops.
Sampler(r) == IF kind[r] = "trace" THEN tracing ELSE cpu
Capturing(r) == Sampler(r).active /\ Sampler(r).owner = r
Started(r) == InSteps(r, "start")

\* C16: a /profile or /trace request whose start succeeded calls stop
\* exactly once, after its wait has ended (by the timer or by the client's
\* disconnect) and before it returns: its sampler is capturing for it from
\* its start to its stop and not after, goes from idle to capturing only at
\* its start and back only at its stop, and every capture that started is
\* eventually stopped.
C16_StopExactlyOnce ==
    /\ [](\A r \in Req :
            /\ Capturing(r) <=> (Started(r) /\ ~InSteps(r, "stop"))
            /\ Started(r) =>
                /\ Count(steps[r], "stop") <= 1
                /\ ~InSteps(r, "stop") <=> pc[r] \in {"sleep", "woke"}
                /\ pc[r] = "done" => Count(steps[r], "stop") = 1 /\ ~Capturing(r))
    /\ [][\A r \in Req :
            /\ (Count(steps'[r], "stop") > Count(steps[r], "stop")) =>
                  /\ pc[r] = "woke" /\ endedBy[r] \in {"timer", "gone"}
                  /\ Capturing(r) /\ ~Sampler(r)'.active
            /\ (Capturing(r) /\ ~Capturing(r)') =>
                  steps'[r] = Append(steps[r], "stop")
            /\ (~Capturing(r) /\ Capturing(r)') =>
                  pc[r] = "idle" /\ steps'[r] = <<"start">>
            /\ (pc[r] # "done" /\ pc'[r] = "done" /\ Started(r)) =>
                  Count(steps'[r], "stop") = 1 /\ ~Capturing(r)']_vars
    /\ \A r \in Req : Capturing(r) ~> ~Capturing(r)

\* A /profile request whose wait the client's disconnect ended, returned
\* after its one stop, with the sampler idle.
C16_Witness ==
    \E r \in Req :
        /\ kind[r] = "profile" /\ endedBy[r] = "gone" /\ pc[r] = "done"
        /\ Count(steps[r], "stop") = 1
        /\ ~cpu.active

\* C17: with /profile requests racing each other, StopCPUProfile is called
\* only by a request whose own start succeeded: while a request is in its
\* wait the sampler captures into that request's buffer, only that request's
\* own stop makes the sampler idle or changes it at all, and no buffer ever
\* holds a sample of a capture another request started.
C17_StopOnlyByOwner ==
    /\ [](\A r \in Req :
            /\ (kind[r] = "profile" /\ Waiting(r))
                   => cpu.active /\ cpu.owner = r /\ cpu.w = r
            /\ (kind[r] = "profile" /\ buf[r].type = "raw")
                   => \A i \in 1..Len(buf[r].data) : buf[r].data[i] = r
            /\ InSteps(r, "stop") => Started(r) /\ ~InSteps(r, "start_err"))
    /\ [][\A r \in Req :
            (kind[r] = "profile" /\ Waiting(r) /\ cpu' # cpu) =>
                /\ pc[r] = "woke" /\ pc'[r] = "stopped"
                /\ steps'[r] = Append(steps[r], "stop")
                /\ \A q \in Req \ {r} : steps'[q] = steps[q] /\ buf'[q] = buf[q]]_vars

\* A request that lost the race has returned, and the winner's buffer holds
\* the samples of its own capture.
C17_Witness ==
    \E r, q \in Req :
        /\ q # r
        /\ kind[r] = "profile" /\ pc[r] = "stopped" /\ buf[r].type = "raw"
        /\ Len(buf[r].data) > 0 /\ \A i \in 1..Len(buf[r].data) : buf[r].data[i] = r
        /\ kind[q] = "profile" /\ steps[q] = <<"start_err">> /\ buf[q].data = <<>>

\* A non-binary /profile request between its stop and its return.
PostProcessing(r) ==
    kind[r] = "profile" /\ ~binary[r] /\ pc[r] \in {"stopped", "parsed", "symbolized"}

\* C20: a non-binary /profile request has stopped its capture before it
\* parses, symbolizes, renders and writes: during these steps the sampler is
\* not capturing for it, a second /profile request that starts then gets its
\* own capture, and the first request's buffer and profile get no samples
\* from anyone else.
C20_StoppedBeforePostProcessing ==
    /\ [](\A r \in Req :
            PostProcessing(r) =>
                /\ InSteps(r, "stop")
                /\ ~(cpu.active /\ (cpu.owner = r \/ cpu.w = r)))
    /\ [][\A r, q \in Req :
            ( /\ q # r /\ PostProcessing(r)
              /\ pc[q] = "idle" /\ kind'[q] = "profile" /\ ~cpu.active )
            => ( /\ pc'[q] = "sleep" /\ steps'[q] = <<"start">>
                 /\ cpu'.active /\ cpu'.owner = q /\ cpu'.w = q
                 /\ pc'[r] = pc[r] /\ buf'[r] = buf[r] /\ prof'[r] = prof[r] )]_vars
    /\ [][\A r \in Req :
            (PostProcessing(r) /\ pc'[r] = pc[r])
                => buf'[r] = buf[r] /\ prof'[r] = prof[r]]_vars

\* A second /profile request captures while the first one, its profile
\* parsed, is still at work.
C20_Witness ==
    \E r, q \in Req :
        /\ q # r
        /\ PostProcessing(r) /\ pc[r] = "parsed" /\ Len(prof[r].samples) > 0
        /\ kind[q] = "profile" /\ pc[q] = "sleep" /\ cpu.active /\ cpu.owner = q

\* C19: /symbol writes nothing to the response, header or body, before its
\* input is consumed to its end (io.EOF or a read error): the lines gather
\* in the buffer, and the buffer is delivered whole by one write, the
\* handler's last call.
C19_BufferedUntilInputConsumed ==
    \A r \in Req :
        kind[r] = "symbol" =>
            /\ pc[r] \in {"reading", "read"} =>
                /\ ~resp[r].wroteHeader /\ resp[r].body = <<>>
                /\ ~InSteps(r, "write")
            /\ (reader[r].data # <<>> \/ pc[r] = "reading") => resp[r].body = <<>>
            /\ pc[r] \in {"read", "done"} =>
                /\ reader[r].data = <<>>
                /\ Count(steps[r], "read") = Len(Split(Given(r)))
            /\ pc[r] = "done" =>
                /\ resp[r].body = <<buf[r]>>
                /\ Count(steps[r], "write") = 1
                /\ steps[r][Len(steps[r])] = "write"

\* Two symbol lines are in the buffer, input is still unread, and nothing
\* has been written.
C19_Witness ==
    \E r \in Req :
        /\ kind[r] = "symbol" /\ pc[r] = "reading"
        /\ reader[r].data # <<>>
        /\ Len(SelectSeq(buf[r].data, IsSymbolLine)) = 2
        /\ resp[r].body = <<>> /\ ~resp[r].wroteHeader

\* C18: while a /profile or /trace request waits in sleep it holds nothing
\* the other handlers need: every step of a /symbol request and the index
\* can be taken at any moment of the wait, the request can arrive, and none
\* of these steps moves the clock, ends the wait or touches the waiting
\* request or the samplers; so such a request runs to its end within the
\* wait.
C18_LookupsServedDuringWait ==
    /\ [](\A r \in Req :
            pc[r] = "sleep" =>
                \A q \in Req \ {r} :
                    /\ pc[q] = "idle" =>
                        /\ ENABLED SymbolStart(q, ParallelInputs)
                        /\ ENABLED Index(q, {<<"/">>})
                    /\ (kind[q] = "symbol" /\ pc[q] = "reading") => ENABLED SymbolWord(q)
                    /\ (kind[q] = "symbol" /\ pc[q] = "read") => ENABLED SymbolWrite(q))
    /\ [][\A q \in Req :
            (kind'[q] \in {"symbol", "index"} /\ pc'[q] # pc[q]) =>
                /\ UNCHANGED <<wait, endedBy, samplers, binary, prof>>
                /\ \A r \in Req \ {q} :
                    /\ pc'[r] = pc[r] /\ resp'[r] = resp[r]
                    /\ buf'[r] = buf[r] /\ steps'[r] = steps[r]]_vars

\* A /symbol request that arrived during the wait of request 1 is answered,
\* and that wait is where it began.
C18_Witness ==
    \E q \in Servers :
        /\ pc[1] = "sleep" /\ elapsed[1] = 0 /\ goneAt[1] = Never /\ Capturing(1)
        /\ Answered(q)
        /\ resp[q].body = <<Bytes("symbols", <<Marker, SymbolLine(1, "main.main")>>)>>

====
